---- MODULE Spec2Model ----
(***************************************************************************)
(* Verification model of the UPLC/HPLC chromatogram pipeline:              *)
(*   perform_background_correction     (bg_corr.py, hplc/bg_corr.py)       *)
(*   Chromatogram.__init__ / backgroundsubstraction / _assign_peak_windows *)
(*                                      (UPLC_CEC.py)                      *)
(* Floating-point values are carried as fixed-point integers: intensities  *)
(* in units of 1/Res mAU, values of the LLS domain in units of 1/10^6.     *)
(* numpy arrays are functions over 0..n-1, so indices are those of the     *)
(* source.                                                                 *)
(***************************************************************************)
EXTENDS Integers, Sequences, FiniteSets, TLC

\* ------------------------------------------------------------------------
\* Bounds of the model
\* ------------------------------------------------------------------------
MaxLen == 4
MaxIter == 3
MaxSamples == 5
MaxBuffer == 3

\* ------------------------------------------------------------------------
\* Fixed-point arithmetic
\* ------------------------------------------------------------------------
Res == 10 * 1000
HalfUnit == Res \div 2
\* np.round(..., decimals=9) keeps 9 of the ~16 decimals of a float64; the
\* fixed-point analogue keeps 3 of the 4 decimals of Res.
RoundUnit == Res \div 1000

Abs(x) == IF x < 0 THEN -x ELSE x
Min2(a, b) == IF a <= b THEN a ELSE b
Max2(a, b) == IF a >= b THEN a ELSE b

Size(a) == Cardinality(DOMAIN a)
Arrays(n, S) == [0..(n - 1) -> S]

\* floor division for a positive divisor
FloorDiv(x, d) == IF x >= 0 THEN x \div d ELSE -((-x + d - 1) \div d)

\* np.round: round half to even, to a multiple of unit
RoundHalfEven(x, unit) ==
  LET q == FloorDiv(x, unit)
      r == x - q * unit
  IN  IF 2 * r < unit THEN q * unit
      ELSE IF 2 * r > unit THEN (q + 1) * unit
      ELSE IF q % 2 = 0 THEN q * unit ELSE (q + 1) * unit

Round9(x) == RoundHalfEven(x, RoundUnit)

\* np.heaviside(x, 0): 0 for x < 0, 0 for x = 0, 1 for x > 0
Heaviside0(x) == IF x > 0 THEN 1 ELSE 0

\* x * np.heaviside(x, 0)
Clip(x) == x * Heaviside0(x)

\* 10^6 * log(log(sqrt(x + 1) + 1) + 1) at x = 0, 0.5, 1, ..., 8 mAU
LLSTable ==
  <<526589, 587588, 632002, 666922, 695670, 720082, 741276, 759991, 776734,
    791874, 805684, 818373, 830106, 841013, 851199, 860751, 869742>>
LLSTop == Len(LLSTable) - 1
LLSAt(h) == LLSTable[h + 1]

\* The LLS operator log(log(sqrt(x + 1) + 1) + 1), x >= 0 in units of 1/Res:
\* the tabulated value on the half-unit grid, linear in between.
LLS(x) ==
  LET h == x \div HalfUnit
      f == x % HalfUnit
  IN  IF h >= LLSTop THEN LLSAt(LLSTop)
      ELSE LLSAt(h) + ((LLSAt(h + 1) - LLSAt(h)) * f) \div HalfUnit

\* Its inverse (exp(exp(t) - 1) - 1)^2 - 1, in units of 1/Res.
InvLLS(t) ==
  IF t <= LLSAt(0) THEN 0
  ELSE IF t >= LLSAt(LLSTop) THEN LLSTop * HalfUnit
  ELSE LET k == CHOOSE h \in 0..(LLSTop - 1) : LLSAt(h) <= t /\ t < LLSAt(h + 1)
       IN  k * HalfUnit + ((t - LLSAt(k)) * HalfUnit) \div (LLSAt(k + 1) - LLSAt(k))

\* 0.5 * (a + b)
HalfSum(a, b) == (a + b) \div 2

\* np.median of the values of a at the indices idx (idx not empty)
KthSmallest(a, idx, k) ==
  CHOOSE v \in {a[x] : x \in idx} :
    /\ Cardinality({x \in idx : a[x] < v}) < k
    /\ Cardinality({x \in idx : a[x] <= v}) >= k
Median(a, idx) ==
  LET c == Cardinality(idx)
  IN  IF c % 2 = 1 THEN KthSmallest(a, idx, (c + 1) \div 2)
      ELSE (KthSmallest(a, idx, c \div 2) + KthSmallest(a, idx, c \div 2 + 1)) \div 2

\* ------------------------------------------------------------------------
\* State
\* ------------------------------------------------------------------------
VARIABLES
  \* perform_background_correction
  pbc_pc,              \* position in the function
  dataframe,           \* dataframe['Value (mAU)'].values of the caller
  shift,
  absorbance,
  tform,
  tform_new,
  pbc_i,               \* pass i of the outer loop
  pbc_j,               \* index j of the inner loop
  baseline_corrected,
  baseline,
  \* Chromatogram
  chrom_pc,
  frames,              \* the DataFrame objects, by reference
  self_df,             \* self.df: a reference into frames
  original,            \* the caller's DataFrame as it was handed over
  num_iterations,
  intensity_old,
  intensity_transf,
  il,                  \* pass il of backgroundsubstraction
  \* Chromatogram._assign_peak_windows
  win_pc,
  args,                \* the arguments of the call
  peaks_inds,          \* self.peaks_inds
  ranges_all,          \* ranges as built from the widths, before the discard
  valid,
  ranges,              \* ranges after the discard
  baselines,
  window_df,           \* the returned frame: window_idx and baseline by time_idx
  window_props,        \* self.window_props
  \* Chromatogram._estimate_peak_params and quantify
  est_pc,
  boundpars,
  est_todo,            \* the windows the loop of line 413 has yet to visit
  peak_props,          \* the local peak_props, self.peak_props at the return
  solver,              \* what curve_fit did for each window visited
  printed,             \* the windows for which the warning of line 488 was printed
  quant_pc,
  peak_df,             \* self.peak_df
  mix_array,           \* self.mix_array, by column
  \* calibration and concentration (hplc/main.py; the script part of UPLC_CEC.py)
  cal_pc,
  all_compounds,       \* hplc/main.py: the Compound objects of one name
  curve_params,        \* hplc/main.py: curve_params[name]
  data_peaks,          \* UPLC_CEC.py: the rows of the calibration peak table
  json_store,          \* UPLC_CEC.py: json/calibration_<compound>.json
  cal_report,          \* UPLC_CEC.py: what the calibration loop printed
  res_area,            \* the area of the measured peak
  concentration,       \* the concentration resolved for it
  \* detect_and_highlight_peaks (hplc/find_peaks.py, find_peaks.py)
  det_pc,
  det_file,            \* the file of the function that runs
  det_data,            \* baseline_corrected_data
  retention_times,     \* the dict, as the list of its items
  det_next,            \* the item the loop visits next
  det_peaks,           \* peaks
  left_bases,          \* prominences['left_bases']
  right_bases,         \* prominences['right_bases']
  compound_list,
  det_result           \* what the function returned

pbc_vars == <<pbc_pc, dataframe, shift, absorbance, tform, tform_new, pbc_i,
              pbc_j, baseline_corrected, baseline>>
chrom_vars == <<chrom_pc, frames, self_df, original, num_iterations,
                intensity_old, intensity_transf, il>>
win_vars == <<win_pc, args, peaks_inds, ranges_all, valid, ranges, baselines,
              window_df, window_props>>
fit_vars == <<est_pc, boundpars, est_todo, peak_props, solver, printed, quant_pc,
              peak_df, mix_array>>
cal_vars == <<cal_pc, all_compounds, curve_params, data_peaks, json_store,
              cal_report, res_area, concentration>>
det_vars == <<det_pc, det_file, det_data, retention_times, det_next, det_peaks,
              left_bases, right_bases, compound_list, det_result>>
vars == <<pbc_vars, chrom_vars, win_vars, fit_vars, cal_vars, det_vars>>

\* an array that is not there (an absent column, a value not yet computed)
None == <<>>

\* ------------------------------------------------------------------------
\* perform_background_correction(dataframe, file_name, file_path)
\* (hplc/bg_corr.py; bg_corr.py holds the same statements)
\* ------------------------------------------------------------------------
n_iter == 20

\* the sample values the model feeds to perform_background_correction, mAU
PbcVals == {-2, -1, 0, 4}

PbcIdle ==
  /\ pbc_pc = "idle" /\ dataframe = None /\ shift = 0 /\ absorbance = None
  /\ tform = None /\ tform_new = None /\ pbc_i = 0 /\ pbc_j = 0
  /\ baseline_corrected = None /\ baseline = None

PbcInit ==
  /\ pbc_pc = "start"
  /\ \E n \in 1..MaxLen : dataframe \in Arrays(n, {v * Res : v \in PbcVals})
  /\ shift = 0 /\ absorbance = None
  /\ tform = None /\ tform_new = None /\ pbc_i = 0 /\ pbc_j = 0
  /\ baseline_corrected = None /\ baseline = None

\* lines 13-16: the median of the negative samples, or 0
ComputeShift(a) ==
  LET neg == {x \in DOMAIN a : a[x] < 0}
  IN  IF neg # {} THEN Median(a, neg) ELSE 0

\* lines 11-20: shift, clip, transform
PbcLoad ==
  /\ UNCHANGED <<chrom_vars, win_vars, fit_vars, cal_vars, det_vars>>
  /\ pbc_pc = "start"
  /\ LET s == ComputeShift(dataframe)
         shifted == [x \in DOMAIN dataframe |-> dataframe[x] - s]
         clipped == [x \in DOMAIN dataframe |-> Clip(shifted[x])]
     IN  /\ shift' = s
         /\ absorbance' = clipped
         /\ tform' = [x \in DOMAIN dataframe |-> LLS(clipped[x])]
  /\ pbc_i' = 1
  /\ pbc_pc' = "loop"
  /\ UNCHANGED <<dataframe, tform_new, pbc_j, baseline_corrected, baseline>>

\* a pass whose inner loop starts at index 0 whatever the pass
PbcPassBeginAtZero ==
  /\ UNCHANGED <<chrom_vars, win_vars, fit_vars, cal_vars, det_vars>>
  /\ pbc_pc = "loop" /\ pbc_i <= n_iter
  /\ tform_new' = tform
  /\ pbc_j' = 0
  /\ pbc_pc' = "inner"
  /\ UNCHANGED <<dataframe, shift, absorbance, tform, pbc_i, baseline_corrected,
                 baseline>>

\* lines 25-27: a pass begins with tform_new = tform.copy()
PbcPassBegin ==
  /\ UNCHANGED <<chrom_vars, win_vars, fit_vars, cal_vars, det_vars>>
  /\ pbc_pc = "loop" /\ pbc_i <= n_iter
  /\ tform_new' = tform
  /\ pbc_j' = pbc_i
  /\ pbc_pc' = "inner"
  /\ UNCHANGED <<dataframe, shift, absorbance, tform, pbc_i, baseline_corrected,
                 baseline>>

\* a pass that writes the mean of the two neighbours, without the minimum
PbcUpdateMean(buf, i, j) == HalfSum(buf[j + i], buf[j - i])

\* lines 28-29: the value written at index j in pass i
PbcUpdate(buf, i, j) == Min2(buf[j], HalfSum(buf[j + i], buf[j - i]))

\* lines 27-29: one iteration of the inner loop; it reads tform_new
PbcInner ==
  /\ UNCHANGED <<chrom_vars, win_vars, fit_vars, cal_vars, det_vars>>
  /\ pbc_pc = "inner" /\ pbc_j < Size(tform) - pbc_i
  /\ tform_new' = [tform_new EXCEPT ![pbc_j] = PbcUpdate(tform_new, pbc_i, pbc_j)]
  /\ pbc_j' = pbc_j + 1
  /\ UNCHANGED <<pbc_pc, dataframe, shift, absorbance, tform, pbc_i,
                 baseline_corrected, baseline>>

\* line 30: tform = tform_new
PbcPassEnd ==
  /\ UNCHANGED <<chrom_vars, win_vars, fit_vars, cal_vars, det_vars>>
  /\ pbc_pc = "inner" /\ pbc_j >= Size(tform) - pbc_i
  /\ tform' = tform_new
  /\ pbc_i' = pbc_i + 1
  /\ pbc_pc' = "loop"
  /\ UNCHANGED <<dataframe, shift, absorbance, tform_new, pbc_j,
                 baseline_corrected, baseline>>

\* lines 33-36 and 69: invert, subtract, round, add the shift back
PbcReturn ==
  /\ UNCHANGED <<chrom_vars, win_vars, fit_vars, cal_vars, det_vars>>
  /\ pbc_pc = "loop" /\ pbc_i > n_iter
  /\ LET inv_tform == [x \in DOMAIN tform |-> InvLLS(tform[x])]
     IN  /\ baseline_corrected' =
               [x \in DOMAIN tform |-> Round9(absorbance[x] - inv_tform[x])]
         /\ baseline' = [x \in DOMAIN tform |-> inv_tform[x] + shift]
  /\ pbc_pc' = "done"
  /\ UNCHANGED <<dataframe, shift, absorbance, tform, tform_new, pbc_i, pbc_j>>

\* ------------------------------------------------------------------------
\* Chromatogram (UPLC_CEC.py)
\* ------------------------------------------------------------------------
\* the sample values the model feeds to a Chromatogram, mV
ChromVals == {-2, 0, 3}

\* retention times are in units of 1/TimeRes min; samples are one minute apart
TimeRes == 2 * 5
TimeOf(k) == k * TimeRes

\* the caller's DataFrame and the frame a crop creates
caller_df == 1
cropped_df == 2

\* a DataFrame with the columns time_min, (step,) intensity_mV; the columns
\* intensity_mV_nobackgroundcorrection and intensity_mV_background are absent
NewFrame(t, v) ==
  [time_min |-> t, intensity_mV |-> v, nobackgroundcorrection |-> None,
   background |-> None]

ChromIdle ==
  /\ chrom_pc = "idle" /\ frames = <<>> /\ self_df = 0 /\ original = None
  /\ num_iterations = 0 /\ intensity_old = None /\ intensity_transf = None
  /\ il = 0

ChromInit ==
  /\ chrom_pc = "new"
  /\ \E n \in 1..MaxLen :
       \E v \in Arrays(n, {x * Res : x \in ChromVals}) :
         /\ original = NewFrame([k \in 0..(n - 1) |-> TimeOf(k)], v)
         /\ frames = [r \in {caller_df, cropped_df} |->
                        IF r = caller_df THEN original ELSE None]
  /\ self_df = 0
  /\ num_iterations = 0 /\ intensity_old = None /\ intensity_transf = None
  /\ il = 0

\* df[(df.time >= w[0]) & (df.time <= w[1])]: the rows kept by a time window
CropRows(f, w) == {k \in DOMAIN f.time_min : f.time_min[k] >= w[1] /\ f.time_min[k] <= w[2]}

\* the column col restricted to the first m rows
Prefix(col, m) == IF col = None THEN None ELSE [k \in 0..(m - 1) |-> col[k]]

\* lines 117-123, crop: a new DataFrame of the rows inside the window (the
\* windows of the model start at the first sample, so the rows kept are 0..m-1)
Crop(f, w) ==
  LET m == Cardinality(CropRows(f, w))
  IN  [time_min |-> Prefix(f.time_min, m),
       intensity_mV |-> Prefix(f.intensity_mV, m),
       nobackgroundcorrection |-> Prefix(f.nobackgroundcorrection, m),
       background |-> Prefix(f.background, m)]

\* lines 88-94: intensity - first_int written back into column 2 of df
SubtractFirst(f) ==
  [f EXCEPT !.intensity_mV =
     [k \in DOMAIN f.intensity_mV |-> f.intensity_mV[k] - f.intensity_mV[0]]]

\* the time windows the model passes: none, or [first time, time of a sample]
TimeWindows(f) == {None} \cup {<<f.time_min[0], f.time_min[k]>> : k \in DOMAIN f.time_min}

\* lines 30-100, Chromatogram.__init__(file=<DataFrame>, time_window, baselinecorrection)
Construct ==
  /\ UNCHANGED <<pbc_vars, win_vars, fit_vars, cal_vars, det_vars>>
  /\ chrom_pc = "new"
  /\ \E time_window \in TimeWindows(frames[caller_df]), baselinecorrection \in BOOLEAN :
       LET ref == IF time_window = None THEN caller_df ELSE cropped_df
           df == IF time_window = None THEN frames[caller_df]
                 ELSE Crop(frames[caller_df], time_window)
       IN  /\ self_df' = ref
           /\ frames' = [frames EXCEPT ![ref] =
                           IF baselinecorrection THEN SubtractFirst(df) ELSE df]
  /\ chrom_pc' = "ready"
  /\ UNCHANGED <<original, num_iterations, intensity_old, intensity_transf, il>>

\* backgroundsubstraction reading the intensity column in every call
BsEnterCompounding ==
  /\ UNCHANGED <<pbc_vars, win_vars, fit_vars, cal_vars, det_vars>>
  /\ chrom_pc = "ready"
  /\ \E n \in 0..MaxIter : num_iterations' = n
  /\ LET intensity == frames[self_df].intensity_mV
     IN  /\ intensity_old' = intensity
         /\ intensity_transf' = [k \in DOMAIN intensity |-> LLS(Clip(intensity[k]))]
  /\ il' = 0
  /\ chrom_pc' = "passes"
  /\ UNCHANGED <<frames, self_df, original>>

\* lines 142-151: the input column, its copy, clipping, the LLS transform
BsEnter ==
  /\ UNCHANGED <<pbc_vars, win_vars, fit_vars, cal_vars, det_vars>>
  /\ chrom_pc = "ready"
  /\ \E n \in 0..MaxIter : num_iterations' = n
  /\ LET df == frames[self_df]
         intensity == IF df.nobackgroundcorrection # None
                      THEN df.nobackgroundcorrection ELSE df.intensity_mV
     IN  /\ intensity_old' = intensity
         /\ intensity_transf' = [k \in DOMAIN intensity |-> LLS(Clip(intensity[k]))]
  /\ il' = 0
  /\ chrom_pc' = "passes"
  /\ UNCHANGED <<frames, self_df, original>>

\* lines 154-158: one pass with half-width w; every new value is computed
\* from intensity_transf, the values of the previous pass
BsPassResult(t, w) ==
  [i \in DOMAIN t |->
     IF w <= i /\ i < Size(t) - w
     THEN Min2(t[i], HalfSum(t[i + w], t[i - w]))
     ELSE t[i]]

\* lines 153-158: for il in range(0, num_iterations)
BsPass ==
  /\ UNCHANGED <<pbc_vars, win_vars, fit_vars, cal_vars, det_vars>>
  /\ chrom_pc = "passes" /\ il < num_iterations
  /\ intensity_transf' = BsPassResult(intensity_transf, il)
  /\ il' = il + 1
  /\ UNCHANGED <<chrom_pc, frames, self_df, original, num_iterations, intensity_old>>

\* lines 160-163: transform back and store the three columns in self.df
BsReturn ==
  /\ UNCHANGED <<pbc_vars, win_vars, fit_vars, cal_vars, det_vars>>
  /\ chrom_pc = "passes" /\ il >= num_iterations
  /\ LET intensity == [k \in DOMAIN intensity_transf |-> InvLLS(intensity_transf[k])]
     IN  frames' = [frames EXCEPT ![self_df] =
                      [@ EXCEPT !.intensity_mV =
                                  [k \in DOMAIN intensity |-> intensity_old[k] - intensity[k]],
                                !.nobackgroundcorrection = intensity_old,
                                !.background = intensity]]
  /\ chrom_pc' = "ready"
  /\ UNCHANGED <<self_df, original, num_iterations, intensity_old, intensity_transf, il>>

\* ------------------------------------------------------------------------
\* Chromatogram._assign_peak_windows: state before the first call
\* ------------------------------------------------------------------------
\* self.window_props = None (line 98); peaks_inds is not yet an attribute
WinIdle ==
  /\ win_pc = "idle" /\ args = None /\ peaks_inds = None /\ ranges_all = None
  /\ valid = None /\ ranges = None /\ baselines = None /\ window_df = None
  /\ window_props = None

\* _estimate_peak_params and quantify not yet called; peak_df is None
\* (line 100), peak_props and mix_array are not yet attributes
FitIdle ==
  /\ est_pc = "idle" /\ boundpars = None /\ est_todo = None /\ peak_props = None
  /\ solver = None /\ printed = None /\ quant_pc = "idle" /\ peak_df = None
  /\ mix_array = None

\* no calibration run
CalIdle ==
  /\ cal_pc = "idle" /\ all_compounds = None /\ curve_params = None
  /\ data_peaks = None /\ json_store = None /\ cal_report = None
  /\ res_area = 0 /\ concentration = None

\* detect_and_highlight_peaks not called
DetIdle ==
  /\ det_pc = "idle" /\ det_file = None /\ det_data = None
  /\ retention_times = None /\ det_next = 0 /\ det_peaks = None
  /\ left_bases = None /\ right_bases = None /\ compound_list = None
  /\ det_result = None

\* ------------------------------------------------------------------------
\* Baseline estimation: one call of perform_background_correction, or the
\* life of one Chromatogram
\* ------------------------------------------------------------------------
InitBG ==
  /\ (PbcInit /\ ChromIdle) \/ (PbcIdle /\ ChromInit)
  /\ WinIdle
  /\ FitIdle
  /\ CalIdle
  /\ DetIdle

NextBG ==
  \/ PbcLoad
  \/ PbcPassBegin
  \/ PbcInner
  \/ PbcPassEnd
  \/ PbcReturn
  \/ Construct
  \/ BsEnter
  \/ BsPass
  \/ BsReturn

SpecBG == InitBG /\ [][NextBG]_vars

\* ------------------------------------------------------------------------
\* Claims about baseline estimation (checked under SpecBG)
\* ------------------------------------------------------------------------
Flat(a) == \A x, y \in DOMAIN a : a[x] = a[y]
Zeros(a) == \A x \in DOMAIN a : a[x] = 0

\* perform_background_correction has returned
PbcDone == pbc_pc = "done"

\* Chromatogram.backgroundsubstraction has returned at least once
BsReturned == chrom_pc = "ready" /\ frames[self_df].background # None

\* C1: at every sample index i the corrected value returned by
\* perform_background_correction equals the input intensity minus the returned
\* baseline, raw[i] - baseline[i] (read up to the rounding of the corrected
\* trace to a fixed number of decimals), also for traces with negative samples
\* that are shifted and clipped.
C1_CorrectedIsRawMinusBaseline ==
  PbcDone =>
    \A x \in DOMAIN dataframe :
      2 * Abs(baseline_corrected[x] - (dataframe[x] - baseline[x])) <= RoundUnit

\* C2: in each pass of perform_background_correction the value written at an
\* index is computed only from the values at the end of the previous pass
\* (held by tform), never from a value written earlier in the same pass.
C2_PassReadsPreviousPass ==
  pbc_pc = "inner" =>
    \A k \in pbc_i..(pbc_j - 1) :
      tform_new[k] = Min2(tform[k], HalfSum(tform[k + pbc_i], tform[k - pbc_i]))

\* C3: for a flat trace, every sample equal to the same constant of any sign,
\* and any iteration count >= 1, baseline estimation (by either estimator)
\* returns a baseline equal to the trace at every sample and a corrected trace
\* that is zero at every sample.
C3_FlatTraceAnySign ==
  /\ (PbcDone /\ Flat(dataframe)) =>
       (baseline = dataframe /\ Zeros(baseline_corrected))
  /\ (BsReturned /\ num_iterations >= 1 /\ Flat(intensity_old)) =>
       /\ frames[self_df].background = intensity_old
       /\ Zeros(frames[self_df].intensity_mV)

\* the passes with half-widths a..b applied in turn
RECURSIVE PassesFromTo(_, _, _)
PassesFromTo(t, a, b) ==
  IF a > b THEN t ELSE PassesFromTo(BsPassResult(t, a), a + 1, b)

\* C4: backgroundsubstraction called with num_iterations = N performs exactly
\* the passes iter = 1..N, pass iter replacing t[j] by
\* min(t[j], 0.5*(t[j+iter] + t[j-iter])) for iter <= j < n-iter, so that the
\* widest half-width used is N.
C4_PassesOneToN ==
  BsReturned =>
    intensity_transf =
      PassesFromTo([k \in DOMAIN intensity_old |-> LLS(Clip(intensity_old[k]))],
                   1, num_iterations)

\* C5: constructing a Chromatogram from the caller's DataFrame and running
\* backgroundsubstraction leaves the caller's DataFrame as it was: the same
\* rows, the same columns, the same intensity values.
C5_CallerFrameUnchanged ==
  chrom_pc # "idle" => frames[caller_df] = original

\* ------------------------------------------------------------------------
\* scipy.signal as called by _assign_peak_windows
\* ------------------------------------------------------------------------
\* positions between samples (left_ips, right_ips, widths) are in units of
\* 1/PosRes sample; prominence and rel_height are in units of 1/Milli
PosRes == 10 * 100
Milli == 10 * 100
NormRes == 10 * Milli

SetMin(S) == CHOOSE v \in S : \A w \in S : v <= w
SetMax(S) == CHOOSE v \in S : \A w \in S : v >= w

\* the elements of a set of integers in increasing order
RECURSIVE SortedSeq(_)
SortedSeq(S) ==
  IF S = {} THEN <<>> ELSE <<SetMin(S)>> \o SortedSeq(S \ {SetMin(S)})

\* the elements of a list that satisfy a flag list
RECURSIVE KeepValid(_, _)
KeepValid(list, flags) ==
  IF list = <<>> THEN <<>>
  ELSE (IF Head(flags) THEN <<Head(list)>> ELSE <<>>)
         \o KeepValid(Tail(list), Tail(flags))

\* line 211: norm_int; all NaN (None) when the trace is flat
NormInt(x) ==
  LET lo == SetMin({x[k] : k \in DOMAIN x})
      hi == SetMax({x[k] : k \in DOMAIN x})
  IN  IF hi = lo THEN None
      ELSE [k \in DOMAIN x |-> ((x[k] - lo) * NormRes) \div (hi - lo)]

\* scipy _local_maxima_1d: the first index after a plateau that starts at i
PlateauAhead(x, i) ==
  SetMin({a \in (i + 1)..(Size(x) - 1) : a = Size(x) - 1 \/ x[a] # x[i]})

\* scipy _local_maxima_1d: the midpoints of the plateaus that rise on the
\* left and fall on the right; never the first or the last sample
LocalMaxima(x) ==
  {(i + PlateauAhead(x, i) - 1) \div 2 :
     i \in {k \in 1..(Size(x) - 2) : x[k - 1] < x[k] /\ x[PlateauAhead(x, k)] < x[k]}}

\* scipy _peak_prominences (wlen=None): bases and prominence of index p
Prominences(x, p) ==
  LET L == {i \in 0..p : \A k \in i..p : x[k] <= x[p]}
      R == {i \in p..(Size(x) - 1) : \A k \in p..i : x[k] <= x[p]}
      left_min == SetMin({x[i] : i \in L})
      right_min == SetMin({x[i] : i \in R})
  IN  [prominence |-> x[p] - Max2(left_min, right_min),
       left_base |-> SetMax({i \in L : x[i] = left_min}),
       right_base |-> SetMin({i \in R : x[i] = right_min})]

\* line 215: scipy.signal.find_peaks(norm_int, prominence=prominence)
FindPeaks(norm_int, prominence) ==
  IF norm_int = None THEN <<>>
  ELSE SortedSeq({p \in LocalMaxima(norm_int) :
                    prominence * (NormRes \div Milli) <= Prominences(norm_int, p).prominence})

\* scipy _peak_widths for one peak: width, height and the interpolated
\* crossing positions at relative height rel_height
PeakWidth(x, p, rel_height) ==
  LET pr == Prominences(x, p)
      height == x[p] - (pr.prominence * rel_height) \div Milli
      i == SetMax({k \in pr.left_base..p : k = pr.left_base \/ ~(height < x[k])})
      j == SetMin({k \in p..pr.right_base : k = pr.right_base \/ ~(height < x[k])})
      left_ip == IF x[i] < height
                 THEN i * PosRes + ((height - x[i]) * PosRes) \div (x[i + 1] - x[i])
                 ELSE i * PosRes
      right_ip == IF x[j] < height
                  THEN j * PosRes - ((height - x[j]) * PosRes) \div (x[j - 1] - x[j])
                  ELSE j * PosRes
  IN  [width |-> right_ip - left_ip, height |-> height,
       left |-> left_ip, right |-> right_ip]

\* lines 230-234: scipy.signal.peak_widths(intensity, peaks, rel_height)
RECURSIVE PeakWidths(_, _, _)
PeakWidths(x, peaks, rel_height) ==
  IF peaks = <<>> THEN <<>>
  ELSE <<PeakWidth(x, Head(peaks), rel_height)>>
         \o PeakWidths(x, Tail(peaks), rel_height)

\* scipy raises ValueError for a peak that is no index of x
PeaksInRange(x, peaks) == \A q \in DOMAIN peaks : peaks[q] \in DOMAIN x

\* ------------------------------------------------------------------------
\* Chromatogram._assign_peak_windows(prominence, rel_height, buffer,
\*                                   manual_peak_positions, baselinecorrection)
\* ------------------------------------------------------------------------
\* lines 217-220: the index of a manual retention time,
\* np.int_((pos - timew[0]) / deltatw), deltatw = (timew[-1] - timew[0]) / n
ManualIndex(timew, pos) ==
  LET n == Size(timew)
      num == (pos - timew[0]) * n
      den == timew[n - 1] - timew[0]
  IN  IF num >= 0 THEN num \div den ELSE -((-num) \div den)

\* line 219: the indices of the manual retention times, in their order
RECURSIVE ManualIndices(_, _)
ManualIndices(timew, positions) ==
  IF positions = <<>> THEN <<>>
  ELSE <<ManualIndex(timew, Head(positions))>> \o ManualIndices(timew, Tail(positions))

\* lines 214-220: the peak candidates
DetectPeaks(df, a) ==
  IF a.manual_peak_positions = None
  THEN FindPeaks(NormInt(df.intensity_mV), a.prominence)
  ELSE ManualIndices(df.time_min, a.manual_peak_positions)

\* lines 224-226: the first candidate is dropped when it is index 0
DropLeftBoundary(peaks) ==
  IF Len(peaks) > 0 /\ peaks[1] = 0 THEN Tail(peaks) ELSE peaks

\* lines 239-248: the padded range of one peak, np.arange(round(l), round(r))
\* as [lo, hi)
PaddedRange(w, buffer, n) ==
  LET l == IF w.left - buffer * PosRes < 0 THEN 0 ELSE w.left - buffer * PosRes
      r == IF w.right + buffer * PosRes > n * PosRes THEN n * PosRes
           ELSE w.right + buffer * PosRes
  IN  [lo |-> RoundHalfEven(l, PosRes) \div PosRes,
       hi |-> RoundHalfEven(r, PosRes) \div PosRes]

\* lines 238-248: ranges, one per peak
RECURSIVE PaddedRanges(_, _, _)
PaddedRanges(out, buffer, n) ==
  IF out = <<>> THEN <<>>
  ELSE <<PaddedRange(Head(out), buffer, n)>> \o PaddedRanges(Tail(out), buffer, n)

\* line 232: heights
RECURSIVE Heights(_)
Heights(out) ==
  IF out = <<>> THEN <<>> ELSE <<Head(out).height>> \o Heights(Tail(out))

\* set(r) of a range
RangeSet(r) == r.lo..(r.hi - 1)

\* line 255: set(r2).issubset(r1)
IsSubset(r2, r1) == RangeSet(r2) \subseteq RangeSet(r1)

\* a discard loop that compares a range only with the ranges before it
DiscardedByEarlier(rs, j) == \E i \in DOMAIN rs : i < j /\ IsSubset(rs[j], rs[i])

\* lines 251-256: valid[j] is False when another range holds range j
Discarded(rs, j) == \E i \in DOMAIN rs : i # j /\ IsSubset(rs[j], rs[i])
RECURSIVE ValidFrom(_, _)
ValidFrom(rs, j) ==
  IF j > Len(rs) THEN <<>> ELSE <<~Discarded(rs, j)>> \o ValidFrom(rs, j + 1)
ValidFlags(rs) == ValidFrom(rs, 1)

\* lines 267-271: the rows whose window_idx is g once every range has been
\* written: those of range g that no later range overwrites
GroupRows(n, rs, g) ==
  {k \in RangeSet(rs[g]) : k < n /\ \A i \in (g + 1)..Len(rs) : k \notin RangeSet(rs[i])}

\* lines 264-272: window_idx and baseline of every sample some range claims;
\* unclaimed rows are dropped
WindowDf(n, rs, bl) ==
  LET owner(k) == CHOOSE g \in DOMAIN rs : k \in GroupRows(n, rs, g)
  IN  [k \in UNION {GroupRows(n, rs, g) : g \in DOMAIN rs} |->
         [window_idx |-> owner(k), baseline |-> bl[owner(k)]]]

\* lines 279-280: the candidates inside the group d with a positive sample
RECURSIVE GroupPeaks(_, _, _)
GroupPeaks(peaks, rows, x) ==
  IF peaks = <<>> THEN <<>>
  ELSE (IF Head(peaks) \in rows /\ x[Head(peaks)] > 0 THEN <<Head(peaks)>> ELSE <<>>)
         \o GroupPeaks(Tail(peaks), rows, x)

\* np.where(peaks == p)[0]: the positions of p in peaks
Positions(peaks, p) == SortedSeq({q \in DOMAIN peaks : peaks[q] = p})

\* line 281: peak_inds
RECURSIVE PeakInds(_, _)
PeakInds(gpeaks, peaks) ==
  IF gpeaks = <<>> THEN <<>>
  ELSE Positions(peaks, Head(gpeaks)) \o PeakInds(Tail(gpeaks), peaks)

\* line 277: time_step = np.mean(np.diff(time)), in units of 1/TimeRes min
TimeStep(timew) == (timew[Size(timew) - 1] - timew[0]) \div (Size(timew) - 1)

\* lines 278-301: the entry of window_dict for the group g
WindowEntry(df, rows, peaks, widths, bl, baselinecorrection) ==
  LET d == SortedSeq(rows)
      x == df.intensity_mV
      gp == GroupPeaks(peaks, rows, x)
      inds == PeakInds(gp, peaks)
      \* baselines[i]: i is what the loop of lines 267-271 left behind
      b == bl[Len(bl)]
      wd == [q \in DOMAIN inds |-> (widths[inds[q]].width * TimeStep(df.time_min)) \div PosRes]
      loc == [q \in DOMAIN gp |-> df.time_min[gp[q]]]
  IN  IF baselinecorrection
      THEN [time_range |-> [q \in DOMAIN d |-> df.time_min[d[q]]],
            intensity |-> [q \in DOMAIN d |-> x[d[q]] - b],
            intensity_nobaselinecorrection |-> [q \in DOMAIN d |-> x[d[q]]],
            num_peaks |-> Len(gp),
            amplitude |-> [q \in DOMAIN gp |-> x[gp[q]] - b],
            amplitude_nobaselinecorrection |-> [q \in DOMAIN gp |-> x[gp[q]]],
            location |-> loc,
            width |-> wd]
      ELSE [time_range |-> [q \in DOMAIN d |-> df.time_min[d[q]]],
            intensity |-> [q \in DOMAIN d |-> x[d[q]]],
            num_peaks |-> Len(gp),
            amplitude |-> [q \in DOMAIN gp |-> x[gp[q]]],
            location |-> loc,
            width |-> wd]

\* the sample values of the traces the model segments, mV
WinVals == {0, 1, 3}

\* the manual retention times the model passes alone: the time of a sample,
\* or 0.3 min after it, inside the trace
ManualTimes(timew) ==
  {t \in {timew[k] + d : k \in DOMAIN timew, d \in {0, 3}} : t <= timew[Size(timew) - 1]}

\* the arguments the model passes to _assign_peak_windows: automatic
\* detection, or manual positions (one time, two sample times in any order,
\* three increasing sample times)
ArgSets(df) ==
  [prominence : {1, 500}, rel_height : {500, 1000}, buffer : 0..MaxBuffer,
   manual_peak_positions : {None}, baselinecorrection : BOOLEAN]
  \cup
  [prominence : {1}, rel_height : {1000}, buffer : 0..MaxBuffer,
   manual_peak_positions :
     {<<t>> : t \in ManualTimes(df.time_min)}
       \cup {<<df.time_min[k1], df.time_min[k2]>> : k1, k2 \in DOMAIN df.time_min}
       \cup {<<df.time_min[k[1]], df.time_min[k[2]], df.time_min[k[3]]>> :
               k \in {t \in (DOMAIN df.time_min) \X (DOMAIN df.time_min) \X (DOMAIN df.time_min) :
                        t[1] < t[2] /\ t[2] < t[3]}},
   baselinecorrection : {FALSE}]

\* a Chromatogram as __init__ leaves it with its default
\* baselinecorrection=True (the first sample is 0) and no time window, before
\* the first call of _assign_peak_windows
WinInit ==
  /\ chrom_pc = "ready"
  /\ \E n \in 2..MaxSamples :
       \E v \in Arrays(n, {x * Res : x \in WinVals}) :
         /\ v[0] = 0
         /\ original = NewFrame([k \in 0..(n - 1) |-> TimeOf(k)], v)
  /\ frames = [r \in {caller_df, cropped_df} |->
                 IF r = caller_df THEN original ELSE None]
  /\ self_df = caller_df
  /\ num_iterations = 0 /\ intensity_old = None /\ intensity_transf = None
  /\ il = 0
  /\ WinIdle

\* lines 208-303: the body of _assign_peak_windows for the arguments a
AssignWith(a) ==
       LET df == frames[self_df]
           intensity == df.intensity_mV
           n == Size(intensity)
           peaks == DropLeftBoundary(DetectPeaks(df, a))
       IN  /\ args' = a
           /\ peaks_inds' = peaks
           /\ IF ~PeaksInRange(intensity, peaks)
              THEN \* scipy.signal.peak_widths raises ValueError (line 230)
                   /\ win_pc' = "raised"
                   /\ UNCHANGED <<ranges_all, valid, ranges, baselines, window_df,
                                  window_props>>
              ELSE LET out == PeakWidths(intensity, peaks, a.rel_height)
                       widths == PeakWidths(intensity, peaks, 500)
                       rs == PaddedRanges(out, a.buffer, n)
                       vf == ValidFlags(rs)
                       kept == KeepValid(rs, vf)
                       bl == KeepValid(Heights(out), vf)
                       wdf == WindowDf(n, kept, bl)
                   IN  /\ ranges_all' = rs
                       /\ valid' = vf
                       /\ ranges' = kept
                       /\ baselines' = bl
                       /\ IF kept = <<>>
                          THEN \* no window_idx column: groupby raises KeyError (line 278)
                               /\ win_pc' = "raised"
                               /\ UNCHANGED <<window_df, window_props>>
                          ELSE /\ win_pc' = "returned"
                               /\ window_df' = wdf
                               /\ window_props' =
                                    [g \in {h \in DOMAIN kept : GroupRows(n, kept, h) # {}} |->
                                       WindowEntry(df, GroupRows(n, kept, g), peaks,
                                                   widths, bl, a.baselinecorrection)]

\* lines 195-303, for arguments of the right types and ranges
AssignPeakWindows ==
  /\ UNCHANGED <<pbc_vars, chrom_vars, fit_vars, cal_vars, det_vars>>
  /\ win_pc = "idle" /\ chrom_pc = "ready"
  /\ \E a \in ArgSets(frames[self_df]) : AssignWith(a)

InitWin == PbcIdle /\ WinInit /\ FitIdle /\ CalIdle /\ DetIdle

NextWin == AssignPeakWindows

SpecWin == InitWin /\ [][NextWin]_vars

\* ------------------------------------------------------------------------
\* Claims about _assign_peak_windows (checked under SpecWin)
\* ------------------------------------------------------------------------
\* the discard step has run (the widths did not raise)
DiscardDone == win_pc # "idle" /\ PeaksInRange(frames[self_df].intensity_mV, peaks_inds)

StrictSuperset(r1, r2) ==
  RangeSet(r2) \subseteq RangeSet(r1) /\ RangeSet(r1) # RangeSet(r2)

\* C6: after the subset-discard step no two surviving windows exist such that
\* the index set of one is a strict superset of the index set of the other.
C6_NoNestedSurvivors ==
  DiscardDone =>
    \A i, j \in DOMAIN ranges : i # j => ~StrictSuperset(ranges[i], ranges[j])

\* the discard step dropped a window nested in another and kept two or more,
\* one of them listing two candidates
C6_Witness ==
  /\ DiscardDone /\ Len(ranges) >= 2
  /\ \E g \in DOMAIN window_props : window_props[g].num_peaks >= 2
  /\ \E i, j \in DOMAIN ranges_all :
       ~valid[j] /\ valid[i] /\ StrictSuperset(ranges_all[i], ranges_all[j])

\* C7: after subset-merging the surviving windows are pairwise
\* non-overlapping: no sample index lies in the range of two surviving windows.
C7_SurvivorsDisjoint ==
  DiscardDone =>
    \A i, j \in DOMAIN ranges :
      i # j => RangeSet(ranges[i]) \cap RangeSet(ranges[j]) = {}

\* C8: a raw window B is discarded if and only if some other raw window has
\* an index range that is a strict superset of B's; every other raw window
\* survives, also one that partially overlaps another or equals another.
C8_DiscardedIffStrictlyNested ==
  DiscardDone =>
    \A j \in DOMAIN ranges_all :
      ~valid[j] <=>
        \E i \in DOMAIN ranges_all : i # j /\ StrictSuperset(ranges_all[i], ranges_all[j])

\* the candidate at index p is in the candidate list of the output window g
Listed(g, p) ==
  \E q \in DOMAIN window_props[g].location :
    window_props[g].location[q] = frames[self_df].time_min[p]

\* the sample indices of the output window g
WindowSamples(g) ==
  {k \in DOMAIN frames[self_df].time_min :
     \E q \in DOMAIN window_props[g].time_range :
       window_props[g].time_range[q] = frames[self_df].time_min[k]}

\* C9: every retained candidate whose sample value is strictly positive is
\* listed in exactly one output window, a window whose samples include its
\* index; a candidate whose value is not strictly positive, or whose index is
\* outside a window, is never listed in that window.
C9_CandidateInExactlyOneWindow ==
  win_pc = "returned" =>
    \A q \in DOMAIN peaks_inds :
      LET p == peaks_inds[q]
          x == frames[self_df].intensity_mV
      IN  /\ x[p] > 0 =>
               Cardinality({g \in DOMAIN window_props :
                              Listed(g, p) /\ p \in WindowSamples(g)}) = 1
          /\ \A g \in DOMAIN window_props :
               (x[p] <= 0 \/ p \notin WindowSamples(g)) => ~Listed(g, p)

\* k is the index of a sample whose time is nearest to pos
Nearest(timew, pos, k) ==
  \A m \in DOMAIN timew : Abs(timew[k] - pos) <= Abs(timew[m] - pos)

\* C10: with manual_peak_positions supplied no automatic detection runs and
\* every manual retention time becomes the index of the sample whose time is
\* nearest to it (the candidate list is then subject to the left-boundary
\* discard).
C10_ManualIsNearestSample ==
  (win_pc # "idle" /\ args.manual_peak_positions # None) =>
    LET timew == frames[self_df].time_min
        pos == args.manual_peak_positions
    IN  \E s \in [DOMAIN pos -> DOMAIN timew] :
          /\ \A q \in DOMAIN pos : Nearest(timew, pos[q], s[q])
          /\ peaks_inds = DropLeftBoundary(s)

\* C11: with manual peak positions supplied in any order, every candidate that
\* lands on the first sample (index 0) is discarded and every other candidate
\* is retained: peaks_inds holds no index 0 and its length is the number of
\* supplied positions minus the number of positions that land on index 0.
C11_ManualLeftBoundaryDiscard ==
  (win_pc # "idle" /\ args.manual_peak_positions # None) =>
    LET timew == frames[self_df].time_min
        raw == ManualIndices(timew, args.manual_peak_positions)
    IN  /\ \A q \in DOMAIN peaks_inds : peaks_inds[q] # 0
        /\ Len(peaks_inds) = Len(raw) - Cardinality({q \in DOMAIN raw : raw[q] = 0})

\* ------------------------------------------------------------------------
\* Chromatogram._estimate_peak_params(boundpars) and Chromatogram.quantify
\* (UPLC_CEC.py).  Amplitudes are in units of 1/Res mV, times in units of
\* 1/TimeRes min, scale parameters in units of 1/Milli of a time unit.
\* scipy.optimize.curve_fit is outside the repository: it rejects bounds and
\* seeds as least_squares does (ValueError), and otherwise either converges
\* to a point inside the bounds or gives up (RuntimeError).
\* ------------------------------------------------------------------------
\* the windows of a dictionary in the order .items() yields them
WindowOrder(d) == SortedSeq(DOMAIN d)

\* lines 428-432: the seed of candidate i of the window v
Seed(v, i) ==
  [amplitude |-> v.amplitude[i],
   location |-> v.location[i],
   scale |-> Max2((v.width[i] * Milli) \div 4, Milli \div 2),
   skew |-> 0]

\* lines 436-457: the finite bounds of candidate i (the scale is bounded by
\* 0 and inf, the skew by -inf and inf)
Bounds(v, i, bp) ==
  LET t == v.time_range
  IN  IF bp = None
      THEN [amp_lo |-> v.amplitude[i] \div 2,
            amp_hi |-> v.amplitude[i] * 2 + 2 * Res,
            loc_lo |-> SetMin({t[q] : q \in DOMAIN t}),
            loc_hi |-> SetMax({t[q] : q \in DOMAIN t})]
      ELSE [amp_lo |-> FloorDiv(v.amplitude[i] * bp.amp_lo, Milli),
            amp_hi |-> FloorDiv(v.amplitude[i] * bp.amp_hi, Milli) + 2 * Res,
            loc_lo |-> v.location[i] - bp.loc_lo,
            loc_hi |-> v.location[i] + bp.loc_hi]

\* lines 418-457: p0 and bounds of the window v
SeedList(v) == [i \in 1..v.num_peaks |-> Seed(v, i)]
BoundList(v, bp) == [i \in 1..v.num_peaks |-> Bounds(v, i, bp)]

\* least_squares: "Each lower bound must be strictly less than each upper
\* bound", "`x0` is infeasible"
Rejected(p0, bounds) ==
  \E i \in DOMAIN p0 :
    \/ bounds[i].amp_lo >= bounds[i].amp_hi
    \/ bounds[i].loc_lo >= bounds[i].loc_hi
    \/ p0[i].amplitude < bounds[i].amp_lo \/ p0[i].amplitude > bounds[i].amp_hi
    \/ p0[i].location < bounds[i].loc_lo \/ p0[i].location > bounds[i].loc_hi

\* the points curve_fit may converge to: every group at the lower end or
\* every group at the upper end of its amplitude and location bounds, the
\* scale of the seed, no skew
Popts(p0, bounds) ==
  { [i \in DOMAIN p0 |-> <<bounds[i].amp_lo, bounds[i].loc_lo, p0[i].scale, 0>>],
    [i \in DOMAIN p0 |-> <<bounds[i].amp_hi, bounds[i].loc_hi, p0[i].scale, 0>>] }

\* 1000 * exp(-r^2 / 2) for r = 0, 1, 2, 3, 4
GaussTable == <<1000, 607, 135, 11, 0>>

\* lines 340-345 with alpha = 0: amp * exp(-(x - loc)^2 / (2 scale^2)) * 1,
\* the exponential read from the table at the nearest whole (x - loc) / scale
ComputeSkewnorm(x, p) ==
  LET r == (2 * Abs(x - p[2]) * Milli + p[3]) \div (2 * p[3])
  IN  (p[1] * GaussTable[Min2(r, Len(GaussTable) - 1) + 1]) \div Milli

RECURSIVE SumOver(_, _, _)
SumOver(t, p, q) ==
  IF q > Len(t) THEN 0 ELSE ComputeSkewnorm(t[q], p) + SumOver(t, p, q + 1)

\* lines 483-484: the area of one fitted group over a window of two or more
\* samples
Area(t, p) == (SumOver(t, p, 1) * (t[Len(t)] - t[1])) \div (Len(t) - 1)

\* lines 476-484: window_dict, peak_1 first
WindowDict(v, popt) ==
  [i \in DOMAIN popt |->
     [retention_time_firstguess |-> v.location[i],
      amplitude |-> popt[i][1],
      retention_time |-> popt[i][2],
      std_dev |-> popt[i][3],
      alpha |-> popt[i][4],
      area |-> Area(v.time_range, popt[i])]]

\* a loop body that fits every window
HasSeedAlways(p0) == TRUE

\* line 460: a window is fitted when it has a seed
HasSeed(p0) == Len(p0) > 0

\* a loop body without a handler
CaughtNothing(exc) == FALSE

\* line 487: the exceptions the loop body handles
Caught(exc) == exc = "RuntimeError"

\* lines 468-484: what the fit of the window v can come to
FitResults(v, p0, bounds) ==
  IF Rejected(p0, bounds)
  THEN {[outcome |-> "ValueError", popt |-> <<>>]}
  ELSE {[outcome |-> "RuntimeError", popt |-> <<>>]}
         \cup {[outcome |-> IF Len(v.time_range) = 1 THEN "ZeroDivisionError"
                            ELSE "converged",
                popt |-> pp] : pp \in Popts(p0, bounds)}

\* the boundpars the model passes: None, the standard factors with the
\* location free by one minute either way, and with the location pinned
BoundParSets ==
  {None,
   [amp_lo |-> 500, loc_lo |-> TimeRes, amp_hi |-> 2000, loc_hi |-> TimeRes],
   [amp_lo |-> 500, loc_lo |-> 0, amp_hi |-> 2000, loc_hi |-> 0]}

\* the arguments quantify passes on in line 547 (baselinecorrection stays at
\* its default)
QuantifyArgs(df) ==
  [prominence : {1}, rel_height : {500, 1000}, buffer : {0, 1, MaxBuffer},
   manual_peak_positions :
     {None} \cup {<<df.time_min[k1], df.time_min[k2]>> : k1, k2 \in DOMAIN df.time_min},
   baselinecorrection : {FALSE}]

\* line 547: quantify assigns the peak windows
QuantifyAssign ==
  /\ UNCHANGED <<pbc_vars, chrom_vars, fit_vars, cal_vars, det_vars>>
  /\ win_pc = "idle" /\ chrom_pc = "ready"
  /\ \E a \in QuantifyArgs(frames[self_df]) : AssignWith(a)

\* lines 406-412: entry of _estimate_peak_params
EstEnter ==
  /\ UNCHANGED <<pbc_vars, chrom_vars, win_vars, cal_vars, det_vars>>
  /\ est_pc = "idle" /\ win_pc = "returned"
  /\ \E bp \in BoundParSets : boundpars' = bp
  /\ est_pc' = "loop"
  /\ est_todo' = WindowOrder(window_props)
  /\ peak_props' = <<>>
  /\ solver' = <<>>
  /\ printed' = <<>>
  /\ UNCHANGED <<quant_pc, peak_df, mix_array>>

\* lines 413-495: one pass of the loop over the windows
EstWindow ==
  /\ UNCHANGED <<pbc_vars, chrom_vars, win_vars, cal_vars, det_vars>>
  /\ est_pc = "loop" /\ est_todo # <<>>
  /\ LET k == Head(est_todo)
         v == window_props[k]
         p0 == SeedList(v)
         bounds == BoundList(v, boundpars)
     IN  IF ~HasSeed(p0)
         THEN /\ solver' = Append(solver, [window |-> k, outcome |-> "none", popt |-> <<>>])
              /\ est_todo' = Tail(est_todo)
              /\ UNCHANGED <<est_pc, peak_props, printed>>
         ELSE \E r \in FitResults(v, p0, bounds) :
                /\ solver' = Append(solver, [window |-> k, outcome |-> r.outcome,
                                             popt |-> r.popt])
                /\ IF r.outcome = "converged"
                   THEN /\ peak_props' = peak_props @@ (k :> WindowDict(v, r.popt))
                        /\ est_todo' = Tail(est_todo)
                        /\ UNCHANGED <<est_pc, printed>>
                   ELSE IF Caught(r.outcome)
                   THEN /\ printed' = Append(printed, k)
                        /\ est_todo' = Tail(est_todo)
                        /\ UNCHANGED <<est_pc, peak_props>>
                   ELSE /\ est_pc' = "raised"
                        /\ UNCHANGED <<est_todo, peak_props, printed>>
  /\ UNCHANGED <<boundpars, quant_pc, peak_df, mix_array>>

\* lines 497-498: self.peak_props = peak_props; return
EstReturn ==
  /\ UNCHANGED <<pbc_vars, chrom_vars, win_vars, cal_vars, det_vars>>
  /\ est_pc = "loop" /\ est_todo = <<>>
  /\ est_pc' = "returned"
  /\ UNCHANGED <<boundpars, est_todo, peak_props, solver, printed, quant_pc, peak_df,
                 mix_array>>

\* a peak_idx that counts from 0
PeakIdxFromZero(iter) == iter

\* line 575: peak_idx of the row appended when iter rows are there
PeakIdx(iter) == iter + 1

\* lines 567-580: the rows of peak_df, window after window
RECURSIVE PeakRows(_, _, _)
PeakRows(pp, order, iter) ==
  IF order = <<>> THEN <<>>
  ELSE LET peaks == pp[Head(order)]
       IN  [i \in DOMAIN peaks |->
              [retention_time |-> peaks[i].retention_time,
               retention_time_firstguess |-> peaks[i].retention_time_firstguess,
               scale |-> peaks[i].std_dev,
               skew |-> peaks[i].alpha,
               amplitude |-> peaks[i].amplitude,
               area |-> peaks[i].area,
               peak_idx |-> PeakIdx(iter + i - 1)]]
             \o PeakRows(pp, Tail(order), iter + Len(peaks))

\* lines 584-596: the columns of mix_array, window after window
RECURSIVE MixColumns(_, _, _)
MixColumns(pp, order, time) ==
  IF order = <<>> THEN <<>>
  ELSE LET peaks == pp[Head(order)]
       IN  [i \in DOMAIN peaks |->
              [x \in DOMAIN time |->
                 ComputeSkewnorm(time[x], <<peaks[i].amplitude, peaks[i].retention_time,
                                            peaks[i].std_dev, peaks[i].alpha>>)]]
             \o MixColumns(pp, Tail(order), time)

\* lines 564-598: quantify after _estimate_peak_params has returned
QuantifyAssemble ==
  /\ UNCHANGED <<pbc_vars, chrom_vars, win_vars, cal_vars, det_vars>>
  /\ est_pc = "returned" /\ quant_pc = "idle"
  /\ peak_df' = PeakRows(peak_props, WindowOrder(peak_props), 0)
  /\ mix_array' = MixColumns(peak_props, WindowOrder(peak_props), frames[self_df].time_min)
  /\ quant_pc' = "returned"
  /\ UNCHANGED <<est_pc, boundpars, est_todo, peak_props, solver, printed>>

\* lines 547, 562 and 701: no handler stands between an exception of
\* _assign_peak_windows or _estimate_peak_params and the caller of quantify
\* and of batch_process
QuantifyAbort ==
  /\ UNCHANGED <<pbc_vars, chrom_vars, win_vars, cal_vars, det_vars>>
  /\ quant_pc = "idle" /\ (est_pc = "raised" \/ (win_pc = "raised" /\ est_pc = "idle"))
  /\ quant_pc' = "raised"
  /\ UNCHANGED <<est_pc, boundpars, est_todo, peak_props, solver, printed, peak_df,
                 mix_array>>

InitFit == InitWin

NextFit ==
  \/ QuantifyAssign
  \/ EstEnter
  \/ EstWindow
  \/ EstReturn
  \/ QuantifyAssemble
  \/ QuantifyAbort

SpecFit == InitFit /\ [][NextFit]_vars

\* ------------------------------------------------------------------------
\* Claims about _estimate_peak_params and quantify (checked under SpecFit)
\* ------------------------------------------------------------------------
\* the windows visited so far for which curve_fit came to the outcome o
RECURSIVE Visited(_, _)
Visited(hist, o) ==
  IF hist = <<>> THEN <<>>
  ELSE (IF Head(hist).outcome = o THEN <<Head(hist).window>> ELSE <<>>)
         \o Visited(Tail(hist), o)

SeqSet(q) == {q[i] : i \in DOMAIN q}

EstRunning == est_pc \in {"loop", "returned", "raised"}

\* C12: when the solver does not converge for a window (RuntimeError),
\* _estimate_peak_params prints its warning for that window, leaves the window
\* out of peak_props, goes on to the remaining windows, and returns the results
\* of exactly the windows that converged, before and after the failing one.
C12_NonConvergenceSkipsWindow ==
  EstRunning =>
    /\ printed = Visited(solver, "RuntimeError")
    /\ DOMAIN peak_props = SeqSet(Visited(solver, "converged"))
    /\ \A e \in SeqSet(solver) :
         e.outcome = "converged" =>
           peak_props[e.window] = WindowDict(window_props[e.window], e.popt)
    /\ (est_pc = "raised" => solver[Len(solver)].outcome # "RuntimeError")
    /\ (est_pc = "returned" => Len(solver) = Len(WindowOrder(window_props)))

\* the fit of a window did not converge, the fit of a later window did, and
\* _estimate_peak_params returned the later window's result
C12_Witness ==
  /\ est_pc = "returned"
  /\ \E i, j \in DOMAIN solver :
       /\ i < j /\ solver[i].outcome = "RuntimeError" /\ solver[j].outcome = "converged"
       /\ solver[j].window \in DOMAIN peak_props
       /\ solver[i].window \notin DOMAIN peak_props

\* C13: any exception raised by the fit of one window, not only
\* non-convergence, is confined to that window: no exception of a fit leaves
\* _estimate_peak_params, so the sibling windows are still fitted and quantify
\* (and with it the batch) completes.
C13_FitExceptionConfined ==
  est_pc # "raised" /\ (quant_pc = "raised" => win_pc = "raised")

\* C14: a window with zero associated candidates is kept in window_props with
\* num_peaks = 0, produces no entry in peak_props, raises no error, prints no
\* warning, and leaves the results of the other windows as their own fits
\* give them.
C14_EmptyWindowSkippedSilently ==
  EstRunning =>
    /\ \A e \in SeqSet(solver) :
         window_props[e.window].num_peaks = 0 =>
           /\ e.outcome = "none"
           /\ e.window \notin DOMAIN peak_props
           /\ e.window \notin SeqSet(printed)
    /\ \A e \in SeqSet(solver) :
         (window_props[e.window].num_peaks > 0 /\ e.outcome = "converged") =>
           /\ e.window \in DOMAIN peak_props
           /\ peak_props[e.window] = WindowDict(window_props[e.window], e.popt)

\* a window without candidates was visited before a window with candidates,
\* whose fit converged, and _estimate_peak_params returned
C14_Witness ==
  /\ est_pc = "returned"
  /\ \E i, j \in DOMAIN solver :
       /\ i < j /\ window_props[solver[i].window].num_peaks = 0
       /\ solver[j].outcome = "converged"

\* the fitted groups in window-traversal order, then in the order of the
\* solver's 4-parameter groups
RECURSIVE FittedGroups(_, _)
FittedGroups(order, hist) ==
  IF order = <<>> THEN <<>>
  ELSE LET es == {e \in SeqSet(hist) : e.window = Head(order) /\ e.outcome = "converged"}
       IN  (IF es = {} THEN <<>>
            ELSE LET e == CHOOSE x \in es : TRUE
                 IN  [i \in DOMAIN e.popt |-> [window |-> e.window, group |-> i,
                                               popt |-> e.popt[i]]])
             \o FittedGroups(Tail(order), hist)

\* C15: quantify reports the fitted peaks in window-traversal order and,
\* within a window, in the order of the solver's 4-parameter groups; peak_idx
\* runs 1..N in that order, row i of peak_df and column i of mix_array describe
\* the same peak, and a window that was skipped contributes no row.
C15_PeakOrder ==
  quant_pc = "returned" =>
    LET fitted == FittedGroups(WindowOrder(window_props), solver)
        time == frames[self_df].time_min
    IN  /\ Len(peak_df) = Len(fitted)
        /\ Len(mix_array) = Len(fitted)
        /\ \A i \in DOMAIN fitted :
             /\ peak_df[i].peak_idx = i
             /\ peak_df[i].amplitude = fitted[i].popt[1]
             /\ peak_df[i].retention_time = fitted[i].popt[2]
             /\ peak_df[i].scale = fitted[i].popt[3]
             /\ peak_df[i].skew = fitted[i].popt[4]
             /\ peak_df[i].retention_time_firstguess =
                  window_props[fitted[i].window].location[fitted[i].group]
             /\ mix_array[i] =
                  [x \in DOMAIN time |-> ComputeSkewnorm(time[x], fitted[i].popt)]

\* quantify returned the peaks of two fitted windows
C15_Witness ==
  /\ quant_pc = "returned" /\ Len(peak_df) >= 2
  /\ Cardinality(DOMAIN peak_props) >= 2

\* ------------------------------------------------------------------------
\* Calibration and concentration: calibrate (hplc/cal_curves.py) and
\* calculate_concentration (hplc/calc_conc.py) as hplc/main.py calls them for
\* one compound name, and the calibration and identification loops of the
\* script part of UPLC_CEC.py for one expected compound.
\* ------------------------------------------------------------------------
MaxPoints == 3

\* A float64 is a record: a number n / d in lowest terms with d > 0, or nan,
\* inf or -inf; Python's None is a record of its own. The data here are whole
\* numbers, and the rounding error of float64 arithmetic on them (about 1e-16
\* of the value) is left out.
RECURSIVE GCD(_, _)
GCD(a, b) == IF b = 0 THEN a ELSE GCD(b, a % b)

\* the float64 n / d, d # 0
Num(n, d) ==
  LET g == GCD(Abs(n), Abs(d))
      s == IF d < 0 THEN -1 ELSE 1
  IN  [k |-> "num", n |-> s * (n \div g), d |-> s * (d \div g)]
NaN == [k |-> "nan", n |-> 0, d |-> 1]
PosInf == [k |-> "inf", n |-> 0, d |-> 1]
NegInf == [k |-> "-inf", n |-> 0, d |-> 1]
PyNone == [k |-> "None", n |-> 0, d |-> 1]

\* a - b of two float64, b a number or nan
NpSub(a, b) ==
  IF a.k = "num" /\ b.k = "num" THEN Num(a.n * b.d - b.n * a.d, a.d * b.d) ELSE NaN

\* a / b of two float64, b a number or nan: a division by zero gives inf,
\* -inf or nan with a RuntimeWarning, never an exception
NpDiv(a, b) ==
  IF a.k # "num" \/ b.k # "num" THEN NaN
  ELSE IF b.n = 0
       THEN (IF a.n = 0 THEN NaN ELSE IF a.n > 0 THEN PosInf ELSE NegInf)
       ELSE Num(a.n * b.d, a.d * b.n)

\* np.abs
NpAbs(a) == IF a.k = "num" THEN Num(Abs(a.n), a.d) ELSE IF a.k = "-inf" THEN PosInf ELSE a

\* round(x, decimals) of a float64, per = 10^decimals: half to even, and nan
\* and the infinities stay what they are
PyRound(a, per) ==
  IF a.k = "num" THEN Num(RoundHalfEven(a.n * per, a.d) \div a.d, per) ELSE a

RECURSIVE SeqSum(_)
SeqSum(q) == IF q = <<>> THEN 0 ELSE Head(q) + SeqSum(Tail(q))

\* scipy.stats.linregress(x, y): slope, intercept and rvalue^2 from the
\* covariances; r is 0 when either variance is 0, and 0 / 0 is nan
LinFit(x, y) ==
  LET n == Len(x)
      sx == SeqSum(x)
      sy == SeqSum(y)
      ssxm == n * SeqSum([i \in DOMAIN x |-> x[i] * x[i]]) - sx * sx
      ssym == n * SeqSum([i \in DOMAIN y |-> y[i] * y[i]]) - sy * sy
      ssxym == n * SeqSum([i \in DOMAIN x |-> x[i] * y[i]]) - sx * sy
  IN  IF ssxm = 0
      THEN [raised |-> FALSE, slope |-> NaN, intercept |-> NaN, r_squared |-> Num(0, 1)]
      ELSE [raised |-> FALSE,
            slope |-> Num(ssxym, ssxm),
            intercept |-> Num(sy * ssxm - ssxym * sx, n * ssxm),
            r_squared |-> IF ssym = 0 THEN Num(0, 1)
                          ELSE Num(ssxym * ssxym, ssxm * ssym)]

\* what linregress can do: for two or more points with identical x it raises
\* ValueError in the scipy releases that check for it and divides 0 by 0 in
\* the others
LinRegress(x, y) ==
  {LinFit(x, y)}
    \cup (IF Len(x) > 1 /\ \A i \in DOMAIN x : x[i] = x[1]
          THEN {[raised |-> TRUE, slope |-> NaN, intercept |-> NaN, r_squared |-> NaN]}
          ELSE {})

\* the concentrations (mM) and areas of the calibration points, and the areas
\* of the measured peaks
CalConcs == {1, 2, 3}
CalAreas == {100, 200, 300}
ResAreas == {0, 100, 250}

\* sequences of 1..MaxPoints elements of S
SeqsUpTo(S) == UNION {[1..m -> S] : m \in 1..MaxPoints}

RECURSIVE Column(_, _)
Column(rows, f) ==
  IF rows = <<>> THEN <<>> ELSE <<Head(rows)[f]>> \o Column(Tail(rows), f)

\* hplc/main.py lines 47-59: the Compound objects of one name, one per
\* calibration file in which the peak was found
HplcInit ==
  /\ cal_pc = "hplc_start"
  /\ all_compounds \in SeqsUpTo([concentration : CalConcs, area : CalAreas])
  /\ curve_params = None /\ data_peaks = None /\ json_store = None
  /\ cal_report = None /\ res_area = 0 /\ concentration = None

\* cal_curves.py lines 24-34 and 51, for the one compound name
Calibrate ==
  /\ UNCHANGED <<pbc_vars, chrom_vars, win_vars, fit_vars, det_vars>>
  /\ cal_pc = "hplc_start"
  /\ \E out \in LinRegress(Column(all_compounds, "concentration"),
                           Column(all_compounds, "area")) :
       IF out.raised
       THEN cal_pc' = "hplc_raised" /\ UNCHANGED curve_params
       ELSE /\ cal_pc' = "hplc_calibrated"
            /\ curve_params' = [Slope |-> PyRound(out.slope, 100),
                                Intercept |-> PyRound(out.intercept, 100),
                                R_squared |-> PyRound(out.r_squared, 100 * 100)]
  /\ UNCHANGED <<all_compounds, data_peaks, json_store, cal_report, res_area,
                 concentration>>

\* calc_conc.py lines 7-13, called in hplc/main.py line 74 with the np.float64
\* area of a measured peak and the curve of its compound
CalculateConcentration ==
  /\ UNCHANGED <<pbc_vars, chrom_vars, win_vars, fit_vars, det_vars>>
  /\ cal_pc = "hplc_calibrated"
  /\ \E area \in ResAreas :
       LET c == NpDiv(NpSub(Num(area, 1), curve_params.Intercept),
                      curve_params.Slope)
       IN  /\ res_area' = area
           /\ concentration' = IF c.k # "nan" THEN PyRound(c, 100) ELSE PyNone
  /\ cal_pc' = "hplc_resolved"
  /\ UNCHANGED <<all_compounds, curve_params, data_peaks, json_store, cal_report>>

\* UPLC_CEC.py line 902, RT_peaks[0] (glutamate), and line 985, error, both
\* in 1/1000 min
ExpectedRT == 1433
RtError == 50

\* the retention times of the fitted peaks: one inside and one outside the
\* interval around ExpectedRT
PeakRTs == {ExpectedRT, ExpectedRT + 60}

\* UPLC_CEC.py lines 932-976: the rows of data_peaks of the calibration batch.
\* Lines 949-954 rename every sample to the prefix of its file name, from which
\* lines 964-976 read concentration_mM, so a sample is named by its
\* concentration; a file without a fitted peak has no row.
UplcInit ==
  /\ cal_pc = "uplc_start"
  /\ data_peaks \in SeqsUpTo([sample : CalConcs, retention_time : PeakRTs,
                              area : CalAreas])
  /\ all_compounds = None /\ curve_params = None /\ json_store = None
  /\ cal_report = None /\ res_area = 0 /\ concentration = None

\* UPLC_CEC.py line 996
InInterval(rt) == ExpectedRT - RtError <= rt /\ rt <= ExpectedRT + RtError

\* UPLC_CEC.py lines 990-998
DataSubset(rows) == SelectSeq(rows, LAMBDA r : InInterval(r.retention_time))

\* UPLC_CEC.py line 1001, len(data_peaks['sample'].unique())
NumSamples(rows) == Cardinality({rows[i].sample : i \in DOMAIN rows})

\* UPLC_CEC.py lines 989-1067, the pass of the loop for the one compound
CalibrationLoop ==
  /\ UNCHANGED <<pbc_vars, chrom_vars, win_vars, fit_vars, det_vars>>
  /\ cal_pc = "uplc_start"
  /\ LET data_subset == DataSubset(data_peaks)
     IN  IF Len(data_subset) = NumSamples(data_peaks)
         THEN /\ cal_report' = "full"
              /\ \E output \in LinRegress(Column(data_subset, "area"),
                                          Column(data_subset, "sample")) :
                   IF output.raised
                   THEN cal_pc' = "uplc_raised" /\ UNCHANGED json_store
                   ELSE /\ cal_pc' = "uplc_calibrated"
                        /\ json_store' = [slope |-> output.slope,
                                          intercept |-> output.intercept,
                                          r_squared |-> output.r_squared]
         ELSE /\ cal_report' = IF Len(data_subset) > NumSamples(data_peaks)
                               THEN "higher" ELSE "lower"
              /\ cal_pc' = "uplc_done"
              /\ UNCHANGED json_store
  /\ UNCHANGED <<all_compounds, curve_params, data_peaks, res_area, concentration>>

\* UPLC_CEC.py lines 1162-1181, for one peak of a measured sample inside the
\* interval of the compound, whose json file exists (line 1167)
UplcResolve ==
  /\ UNCHANGED <<pbc_vars, chrom_vars, win_vars, fit_vars, det_vars>>
  /\ cal_pc = "uplc_calibrated"
  /\ \E area \in ResAreas :
       /\ res_area' = area
       /\ concentration' = NpDiv(NpSub(Num(area, 1), json_store.intercept),
                                 NpAbs(json_store.slope))
  /\ cal_pc' = "uplc_resolved"
  /\ UNCHANGED <<all_compounds, curve_params, data_peaks, json_store, cal_report>>

InitCal ==
  /\ PbcIdle /\ ChromIdle /\ WinIdle /\ FitIdle /\ DetIdle
  /\ (HplcInit \/ UplcInit)

NextCal ==
  \/ Calibrate
  \/ CalculateConcentration
  \/ CalibrationLoop
  \/ UplcResolve

SpecCal == InitCal /\ [][NextCal]_vars

\* ------------------------------------------------------------------------
\* Claims about calibration and concentration, under SpecCal
\* ------------------------------------------------------------------------
\* a concentration has been resolved and handed back
Resolved == cal_pc \in {"hplc_resolved", "uplc_resolved"}

\* the slope and intercept of the curve the resolution used
StoredSlope == IF cal_pc = "hplc_resolved" THEN curve_params.Slope ELSE json_store.slope
StoredIntercept ==
  IF cal_pc = "hplc_resolved" THEN curve_params.Intercept ELSE json_store.intercept

\* C16: resolving a concentration with a curve whose slope is 0 fails with an
\* explicit error for every area: no resolution with such a curve hands back a
\* value, be it a number, an infinity, NaN or None.
C16_ZeroSlopeIsAnError ==
  Resolved => ~(StoredSlope.k = "num" /\ StoredSlope.n = 0)

\* C17: for every area and every stored curve with a slope other than 0, of
\* either sign, the resolved concentration is (area - intercept) / slope, to
\* the two decimals calculate_concentration keeps.
C17_ConcentrationFormula ==
  (Resolved /\ StoredSlope.k = "num" /\ StoredSlope.n # 0) =>
    LET exact == NpDiv(NpSub(Num(res_area, 1), StoredIntercept), StoredSlope)
        diff == NpSub(concentration, exact)
    IN  /\ concentration.k = "num"
        /\ 200 * Abs(diff.n) <= diff.d

\* calibrate has returned a curve; the calibration loop has written one
HplcStored == cal_pc \in {"hplc_calibrated", "hplc_resolved"}
UplcStored == cal_pc \in {"uplc_calibrated", "uplc_resolved"}

\* the least-squares line with the areas as the dependent and the
\* concentrations as the independent variable
AreaOnConcentration(concs, areas) == LinFit(concs, areas)

\* C18: the curve stored for a compound is the ordinary least-squares line
\* with peak area as the dependent and known concentration as the independent
\* variable (in hplc, to the decimals calibrate keeps).
C18_AreaRegressedOnConcentration ==
  /\ HplcStored =>
       LET f == AreaOnConcentration(Column(all_compounds, "concentration"),
                                    Column(all_compounds, "area"))
       IN  /\ curve_params.Slope = PyRound(f.slope, 100)
           /\ curve_params.Intercept = PyRound(f.intercept, 100)
           /\ curve_params.R_squared = PyRound(f.r_squared, 100 * 100)
  /\ UplcStored =>
       LET data_subset == DataSubset(data_peaks)
           f == AreaOnConcentration(Column(data_subset, "sample"),
                                    Column(data_subset, "area"))
       IN  /\ json_store.slope = f.slope
           /\ json_store.intercept = f.intercept
           /\ json_store.r_squared = f.r_squared

\* fewer than 2 points, or all points at one concentration
Degenerate(concs) == Len(concs) < 2 \/ \A i \in DOMAIN concs : concs[i] = concs[1]

\* C19: building a curve from fewer than 2 calibration points, or from points
\* that all have the same concentration, fails with an error and stores no
\* slope or intercept.
C19_DegenerateCalibrationFails ==
  /\ (cal_pc \in {"hplc_calibrated", "hplc_resolved", "hplc_raised"}
        /\ Degenerate(Column(all_compounds, "concentration")))
       => (cal_pc = "hplc_raised" /\ curve_params = None)
  /\ (cal_pc \in {"uplc_calibrated", "uplc_resolved", "uplc_raised"}
        /\ Degenerate(Column(DataSubset(data_peaks), "sample")))
       => (cal_pc = "uplc_raised" /\ json_store = None)

\* the number of peaks of a calibration sample inside the interval of the
\* compound
Matches(rows, s) ==
  Cardinality({i \in DOMAIN rows : rows[i].sample = s /\ InInterval(rows[i].retention_time)})
SamplesOf(rows) == {rows[i].sample : i \in DOMAIN rows}

\* C20: the calibration loop stores a curve only when every calibration
\* sample has exactly one peak matched to the compound; otherwise it stores
\* none and reports more peaks than expected, some sample having several
\* matches, or fewer than expected, some sample having none.
C20_OneMatchPerSample ==
  (cal_pc \in {"uplc_calibrated", "uplc_resolved", "uplc_raised", "uplc_done"}) =>
    LET S == SamplesOf(data_peaks)
    IN  IF \A s \in S : Matches(data_peaks, s) = 1
        THEN cal_report = "full"
        ELSE /\ ~UplcStored
             /\ json_store = None
             /\ \/ cal_report = "higher" /\ \E s \in S : Matches(data_peaks, s) > 1
                \/ cal_report = "lower" /\ \E s \in S : Matches(data_peaks, s) = 0

\* ------------------------------------------------------------------------
\* The order of the stages: _estimate_peak_params may also be called on a
\* Chromatogram on which _assign_peak_windows has not run, or has raised
\* ------------------------------------------------------------------------
\* _estimate_peak_params without the check of line 406: line 409 asks None for
\* its items and the AttributeError leaves the method
EstWithoutCheck ==
  /\ UNCHANGED <<pbc_vars, chrom_vars, win_vars, cal_vars, det_vars>>
  /\ est_pc = "idle" /\ quant_pc = "idle" /\ win_pc \in {"idle", "raised"}
  /\ est_pc' = "raised"
  /\ UNCHANGED <<boundpars, est_todo, peak_props, solver, printed, quant_pc, peak_df,
                 mix_array>>

\* lines 406-407: self.window_props is None (line 98 sets it, only line 302
\* replaces it), so the method raises RuntimeError before anything else
EstRefuse ==
  /\ UNCHANGED <<pbc_vars, chrom_vars, win_vars, cal_vars, det_vars>>
  /\ est_pc = "idle" /\ quant_pc = "idle" /\ win_pc \in {"idle", "raised"}
  /\ est_pc' = "refused"
  /\ UNCHANGED <<boundpars, est_todo, peak_props, solver, printed, quant_pc, peak_df,
                 mix_array>>

InitStage == InitWin

NextStage ==
  \/ QuantifyAssign
  \/ EstRefuse
  \/ EstEnter
  \/ EstWindow
  \/ EstReturn
  \/ QuantifyAssemble
  \/ QuantifyAbort

SpecStage == InitStage /\ [][NextStage]_vars

\* C21: fitting produces results only after segmentation has run on the
\* Chromatogram; called before it, _estimate_peak_params fails with
\* RuntimeError and leaves no peak results; and quantify has always segmented
\* before it fits.
C21_FittingAfterSegmentation ==
  /\ (est_pc \in {"loop", "returned", "raised"} \/ peak_props # None \/ solver # <<>>)
       => win_pc = "returned"
  /\ (est_pc # "idle" /\ win_pc # "returned")
       => (est_pc = "refused" /\ peak_props = None /\ solver = <<>> /\ peak_df = None)
  /\ quant_pc = "returned" => (win_pc = "returned" /\ est_pc = "returned")

\* _estimate_peak_params was called before _assign_peak_windows and refused
C21_Witness == est_pc = "refused" /\ win_pc = "idle" /\ window_props = None

\* ------------------------------------------------------------------------
\* _assign_peak_windows with a parameter out of its range, as a first call
\* or after a call that returned
\* ------------------------------------------------------------------------
\* lines 201-206: the conditions that raise ValueError
OutOfRange(a) ==
  \/ a.prominence < 0 \/ a.prominence > Milli
  \/ a.rel_height < 0 \/ a.rel_height > Milli
  \/ a.buffer < 0

\* arguments of the right types of which one is out of its range
BadArgSets ==
  [prominence : {-1, Milli + 1}, rel_height : {1000}, buffer : {0},
   manual_peak_positions : {None}, baselinecorrection : {FALSE}]
  \cup
  [prominence : {1}, rel_height : {-1, Milli + 1}, buffer : {0},
   manual_peak_positions : {None}, baselinecorrection : {FALSE}]
  \cup
  [prominence : {1}, rel_height : {1000}, buffer : {-1},
   manual_peak_positions : {None}, baselinecorrection : {FALSE}]

\* a method that tests its parameters after line 227 has stored the peaks
AssignRejectLate ==
  /\ UNCHANGED <<pbc_vars, chrom_vars, fit_vars, cal_vars, det_vars>>
  /\ win_pc \in {"idle", "returned"} /\ chrom_pc = "ready"
  /\ \E a \in BadArgSets :
       /\ OutOfRange(a)
       /\ args' = a
       /\ peaks_inds' = DropLeftBoundary(FindPeaks(NormInt(frames[self_df].intensity_mV), 1))
  /\ win_pc' = "rejected"
  /\ UNCHANGED <<ranges_all, valid, ranges, baselines, window_df, window_props>>

\* lines 195-206: the ValueError leaves the method before line 209
AssignReject ==
  /\ UNCHANGED <<pbc_vars, chrom_vars, fit_vars, cal_vars, det_vars>>
  /\ win_pc \in {"idle", "returned"} /\ chrom_pc = "ready"
  /\ \E a \in BadArgSets :
       /\ OutOfRange(a)
       /\ args' = a
  /\ win_pc' = "rejected"
  /\ UNCHANGED <<peaks_inds, ranges_all, valid, ranges, baselines, window_df,
                 window_props>>

InitArgs == InitWin

NextArgs ==
  \/ AssignPeakWindows
  \/ AssignReject

SpecArgs == InitArgs /\ [][NextArgs]_vars

\* C22: a call of _assign_peak_windows with prominence or rel_height outside
\* [0, 1] or with buffer < 0 ends in an error, and window_props, peaks_inds
\* and the chromatogram data are after it what they were before it; a call
\* that goes further has its parameters in range.
C22_RejectedBeforeAnyChange ==
  [][/\ (win_pc' # win_pc /\ OutOfRange(args'))
          => /\ win_pc' = "rejected"
             /\ window_props' = window_props
             /\ peaks_inds' = peaks_inds
             /\ frames' = frames /\ original' = original /\ self_df' = self_df
     /\ (win_pc' # win_pc /\ win_pc' \in {"returned", "raised"})
          => ~OutOfRange(args')]_vars

\* a call with a parameter out of range was rejected on a Chromatogram that
\* already had windows and peaks
C22_Witness ==
  /\ win_pc = "rejected" /\ OutOfRange(args)
  /\ DOMAIN window_props # {} /\ Len(peaks_inds) > 0

\* ------------------------------------------------------------------------
\* The whole pipeline on one trace, every call with its default parameters:
\* Chromatogram(df), backgroundsubstraction(), quantify()
\* ------------------------------------------------------------------------
\* line 127, num_iterations=10, and lines 500-501, buffer=100
DefaultIterations == 10
DefaultBuffer == 100

\* lines 500-501: prominence=1E-3, rel_height=1.0, buffer=100,
\* manual_peak_positions=None; line 169: baselinecorrection=False
DefaultArgs ==
  [prominence |-> 1, rel_height |-> Milli, buffer |-> DefaultBuffer,
   manual_peak_positions |-> None, baselinecorrection |-> FALSE]

\* the samples at which the peaks of the synthetic traces are injected
InjectedAt == <<2, 6, 10>>

\* thirteen samples, a minute apart: three separate peaks of height 2 or 3 mV
\* with shoulders of 1 mV, and 0 mV between them and at both ends
PipeTraces ==
  {[k \in 0..12 |->
      IF k % 4 = 2 THEN h[(k + 2) \div 4] * Res
      ELSE IF k % 2 = 1 THEN Res ELSE 0] : h \in [1..3 -> {2, 3}]}

PipeInit ==
  /\ chrom_pc = "new"
  /\ \E v \in PipeTraces :
       /\ original = NewFrame([k \in DOMAIN v |-> TimeOf(k)], v)
       /\ frames = [r \in {caller_df, cropped_df} |->
                      IF r = caller_df THEN original ELSE None]
  /\ self_df = 0
  /\ num_iterations = 0 /\ intensity_old = None /\ intensity_transf = None
  /\ il = 0

\* lines 142-151 for backgroundsubstraction(), called once on the new object
PipeBackground ==
  /\ UNCHANGED <<pbc_vars, win_vars, fit_vars, cal_vars, det_vars>>
  /\ chrom_pc = "ready" /\ intensity_old = None /\ win_pc = "idle"
  /\ num_iterations' = DefaultIterations
  /\ LET df == frames[self_df]
         intensity == IF df.nobackgroundcorrection # None
                      THEN df.nobackgroundcorrection ELSE df.intensity_mV
     IN  /\ intensity_old' = intensity
         /\ intensity_transf' = [k \in DOMAIN intensity |-> LLS(Clip(intensity[k]))]
  /\ il' = 0
  /\ chrom_pc' = "passes"
  /\ UNCHANGED <<frames, self_df, original>>

\* line 547 for quantify(), called after backgroundsubstraction has returned
PipeAssign ==
  /\ UNCHANGED <<pbc_vars, chrom_vars, fit_vars, cal_vars, det_vars>>
  /\ win_pc = "idle" /\ chrom_pc = "ready" /\ intensity_old # None
  /\ AssignWith(DefaultArgs)

InitPipe == PbcIdle /\ PipeInit /\ WinIdle /\ FitIdle /\ CalIdle /\ DetIdle

NextPipe ==
  \/ Construct
  \/ PipeBackground
  \/ BsPass
  \/ BsReturn
  \/ PipeAssign
  \/ EstEnter
  \/ EstWindow
  \/ EstReturn
  \/ QuantifyAssemble
  \/ QuantifyAbort

SpecPipe == InitPipe /\ [][NextPipe]_vars

\* the pipeline has come to its end on the whole trace with the default
\* boundpars
PipeDone ==
  /\ self_df = caller_df /\ quant_pc # "idle" /\ boundpars = None

C24_OwnWindowBaseline ==
  (win_pc = "returned" /\ args.baselinecorrection /\ Len(ranges) > 1) =>
    \A g \in DOMAIN window_props :
      LET v == window_props[g]
      IN  /\ \A q \in DOMAIN v.intensity :
               v.intensity[q] = v.intensity_nobaselinecorrection[q] - baselines[g]
          /\ \A q \in DOMAIN v.amplitude :
               v.amplitude[q] = v.amplitude_nobaselinecorrection[q] - baselines[g]

\* ------------------------------------------------------------------------
\* Further claims about baseline estimation (checked under SpecBG)
\* ------------------------------------------------------------------------
\* the first and the last index of an array
Ends(a) == {0, Size(a) - 1}

\* C25: no pass of the baseline estimation reads or writes outside the trace,
\* for every length n >= 1 and every number of passes, passes without an
\* interior sample included; and no pass changes the first or the last sample
\* of the transformed trace.
C25_PassesStayInsideTrace ==
  /\ (pbc_pc = "inner" /\ pbc_j < Size(tform) - pbc_i)
       => /\ pbc_j \in DOMAIN tform_new
          /\ pbc_j + pbc_i \in DOMAIN tform_new
          /\ pbc_j - pbc_i \in DOMAIN tform_new
          /\ pbc_j \notin Ends(tform)
  /\ pbc_pc \in {"loop", "inner", "done"}
       => \A e \in Ends(tform) :
            /\ tform[e] = LLS(absorbance[e])
            /\ pbc_pc = "inner" => tform_new[e] = LLS(absorbance[e])
  /\ chrom_pc = "passes"
       => /\ \A i \in il..(Size(intensity_transf) - il - 1) :
               i + il \in DOMAIN intensity_transf /\ i - il \in DOMAIN intensity_transf
          /\ \A e \in Ends(intensity_transf) :
               intensity_transf[e] = LLS(Clip(intensity_old[e]))

\* a pass without an interior sample: the pass number is at least n / 2
C25_Witness ==
  /\ pbc_pc = "inner" /\ Size(tform) >= 2 /\ 2 * pbc_i >= Size(tform)
  /\ pbc_j >= Size(tform) - pbc_i

SeedWithinBounds(v, i) ==
  LET p == Seed(v, i)
      b == Bounds(v, i, None)
  IN  /\ b.amp_lo <= p.amplitude /\ p.amplitude <= b.amp_hi
      /\ b.loc_lo <= p.location /\ p.location <= b.loc_hi
      /\ 0 <= p.scale

\* C27: for every window_props _assign_peak_windows produces, with
\* baselinecorrection False or True, and every candidate of every window, the
\* seed of _estimate_peak_params lies within the default bounds in all four
\* components, so the solver never finds it infeasible.
C27_SeedWithinDefaultBounds ==
  win_pc = "returned" =>
    \A g \in DOMAIN window_props :
      \A i \in 1..window_props[g].num_peaks : SeedWithinBounds(window_props[g], i)

\* C28: for every manual position between the first and the last time of the
\* trace, the sample index _assign_peak_windows computes is one of 0..n-1, so
\* the width measurement and the window construction get no index outside
\* the trace.
C28_ManualIndexInsideTrace ==
  (win_pc # "idle" /\ args.manual_peak_positions # None) =>
    LET timew == frames[self_df].time_min
        pos == args.manual_peak_positions
    IN  (\A q \in DOMAIN pos : timew[0] <= pos[q] /\ pos[q] <= timew[Size(timew) - 1])
          => /\ PeaksInRange(timew, ManualIndices(timew, pos))
             /\ PeaksInRange(frames[self_df].intensity_mV, peaks_inds)

\* ------------------------------------------------------------------------
\* Repeated calls of backgroundsubstraction (checked under SpecBG)
\* ------------------------------------------------------------------------
\* the trace a Chromatogram had before its first call of
\* backgroundsubstraction, as the frame f tells it
TraceBeforeFirstCall(f) ==
  IF f.nobackgroundcorrection # None THEN f.nobackgroundcorrection ELSE f.intensity_mV

\* lines 148-160 for one call with N iterations on the trace v: the background
SingleCallBackground(v, N) ==
  LET t == PassesFromTo([k \in DOMAIN v |-> LLS(Clip(v[k]))], 0, N - 1)
  IN  [k \in DOMAIN v |-> InvLLS(t[k])]

\* C29: backgroundsubstraction does not compound. Every call that returns
\* leaves in the corrected and the background column what a single call with
\* its num_iterations gives on the trace the Chromatogram had before its first
\* call, and the _nobackgroundcorrection column, once there, holds that trace
\* and never changes.
C29_CallsDoNotCompound ==
  /\ [][(chrom_pc = "passes" /\ chrom_pc' = "ready") =>
          (LET v == TraceBeforeFirstCall(frames[self_df])
               b == SingleCallBackground(v, num_iterations)
               f == frames'[self_df]
           IN  /\ f.nobackgroundcorrection = v
               /\ f.background = b
               /\ f.intensity_mV = [k \in DOMAIN v |-> v[k] - b[k]])]_vars
  /\ [][(self_df # 0 /\ frames[self_df].nobackgroundcorrection # None) =>
          (/\ self_df' = self_df
           /\ frames'[self_df].nobackgroundcorrection
                = frames[self_df].nobackgroundcorrection)]_vars

\* a second call is about to return a background other than the one the call
\* before it stored, on a trace the call before it changed
C29_Witness ==
  /\ chrom_pc = "passes" /\ il = num_iterations
  /\ frames[self_df].background # None
  /\ frames[self_df].intensity_mV # frames[self_df].nobackgroundcorrection
  /\ \E k \in DOMAIN intensity_transf :
       InvLLS(intensity_transf[k]) # frames[self_df].background[k]

\* ------------------------------------------------------------------------
\* detect_and_highlight_peaks(time, baseline_corrected_data, retention_times)
\* of hplc/find_peaks.py and find_peaks.py: the samples are one minute apart,
\* time[k] = TimeOf(k), and the absorbances are in units of 1/Res mAU
\* ------------------------------------------------------------------------
hplc_find_peaks == "hplc/find_peaks.py"
root_find_peaks == "find_peaks.py"

\* the absorbances of the traces the model searches: 0, 0.5 and 3 mAU
DetVals == {0, HalfUnit, 3 * Res}

\* the expected retention times of the tables the model passes: 1 min,
\* 1.3 min and 3 min
RtKeys == {TimeOf(1), TimeOf(1) + 3, TimeOf(3)}

\* the tables: no item, one item, or two items with different keys, in the
\* order .items() yields them
RtTables ==
  {<<>>}
    \cup {<<[key |-> k, value |-> "A"]>> : k \in RtKeys}
    \cup {<<[key |-> k[1], value |-> "A"], [key |-> k[2], value |-> "B"]>> :
            k \in {t \in RtKeys \X RtKeys : t[1] # t[2]}}

\* line 29: rt_difference <= 0.5
RtTolerance == TimeRes \div 2

\* line 20: find_peaks(baseline_corrected_data, prominence=1)
FindProminentPeaks(x) ==
  SortedSeq({p \in LocalMaxima(x) : Prominences(x, p).prominence >= Res})

\* np.argmin(np.abs(time[peaks] - key)): the first position of the least
\* distance, for a list of peaks that is not empty
ArgMin(peaks, key) ==
  SetMin({q \in DOMAIN peaks :
            \A r \in DOMAIN peaks :
              Abs(TimeOf(peaks[q]) - key) <= Abs(TimeOf(peaks[r]) - key)})

\* np.delete(a, q)
Delete(a, q) == [r \in 1..(Len(a) - 1) |-> IF r < q THEN a[r] ELSE a[r + 1]]

\* np.trapz(y[range(lb, rb)], range(lb, rb)), twice its value
RECURSIVE Trapz2(_, _, _)
Trapz2(y, lb, rb) ==
  IF lb + 1 >= rb THEN 0 ELSE y[lb] + y[lb + 1] + Trapz2(y, lb + 1, rb)

\* line 31: the rounded area in whole mAU
RoundedArea(y, lb, rb) == RoundHalfEven(Trapz2(y, lb, rb), 2 * Res) \div (2 * Res)

DetInit ==
  /\ det_pc = "start"
  /\ det_file \in {hplc_find_peaks, root_find_peaks}
  /\ \E n \in 1..MaxSamples : det_data \in Arrays(n, DetVals)
  /\ retention_times \in RtTables
  /\ det_next = 0 /\ det_peaks = None /\ left_bases = None /\ right_bases = None
  /\ compound_list = None /\ det_result = None

\* lines 20-21
DetFind ==
  /\ UNCHANGED <<pbc_vars, chrom_vars, win_vars, fit_vars, cal_vars>>
  /\ det_pc = "start"
  /\ LET peaks == FindProminentPeaks(det_data)
     IN  /\ det_peaks' = peaks
         /\ left_bases' = [q \in DOMAIN peaks |-> Prominences(det_data, peaks[q]).left_base]
         /\ right_bases' = [q \in DOMAIN peaks |-> Prominences(det_data, peaks[q]).right_base]
  /\ compound_list' = <<>>
  /\ det_next' = 1
  /\ det_pc' = "loop"
  /\ UNCHANGED <<det_file, det_data, retention_times, det_result>>

\* lines 23-40: one item of retention_times; np.argmin raises ValueError for
\* an empty list of peaks (line 24)
DetVisit ==
  /\ UNCHANGED <<pbc_vars, chrom_vars, win_vars, fit_vars, cal_vars>>
  /\ det_pc = "loop" /\ det_next <= Len(retention_times)
  /\ IF det_peaks = <<>>
     THEN /\ det_pc' = "raised"
          /\ UNCHANGED <<det_next, det_peaks, left_bases, right_bases, compound_list>>
     ELSE LET item == retention_times[det_next]
              peak_number == ArgMin(det_peaks, item.key)
              rt == TimeOf(det_peaks[peak_number])
          IN  /\ IF Abs(rt - item.key) <= RtTolerance
                 THEN /\ compound_list' =
                           Append(compound_list,
                                  [index |-> det_peaks[peak_number], name |-> item.value,
                                   area |-> RoundedArea(det_data, left_bases[peak_number],
                                                        right_bases[peak_number]),
                                   rt |-> rt])
                      /\ det_peaks' = Delete(det_peaks, peak_number)
                      /\ left_bases' = Delete(left_bases, peak_number)
                      /\ right_bases' = Delete(right_bases, peak_number)
                 ELSE UNCHANGED <<compound_list, det_peaks, left_bases, right_bases>>
              /\ det_next' = det_next + 1
              /\ UNCHANGED det_pc
  /\ UNCHANGED <<det_file, det_data, retention_times, det_result>>

\* hplc/find_peaks.py lines 42-71 return compound_list; find_peaks.py lines
\* 56-77 return peaks, the indices no item has matched
DetReturn ==
  /\ UNCHANGED <<pbc_vars, chrom_vars, win_vars, fit_vars, cal_vars>>
  /\ det_pc = "loop" /\ det_next > Len(retention_times)
  /\ det_result' = IF det_file = hplc_find_peaks
                   THEN [compounds |-> compound_list]
                   ELSE [peaks |-> det_peaks]
  /\ det_pc' = "returned"
  /\ UNCHANGED <<det_file, det_data, retention_times, det_next, det_peaks,
                 left_bases, right_bases, compound_list>>

InitDet == PbcIdle /\ ChromIdle /\ WinIdle /\ FitIdle /\ CalIdle /\ DetInit

NextDet ==
  \/ DetFind
  \/ DetVisit
  \/ DetReturn

SpecDet == InitDet /\ [][NextDet]_vars

\* the item of retention_times that has the name v
ItemOf(v) == CHOOSE q \in DOMAIN retention_times : retention_times[q].value = v

\* the call has ended without an exception
DetCompletes == det_pc # "raised"

\* what is returned is a list of compounds, each one a detected peak within
\* the tolerance of the expected retention time of its name
DetReturnsMatches ==
  det_pc = "returned" =>
    /\ DOMAIN det_result = {"compounds"}
    /\ \A q \in DOMAIN det_result.compounds :
         LET c == det_result.compounds[q]
         IN  /\ \E r \in DOMAIN retention_times : retention_times[r].value = c.name
             /\ c.index \in LocalMaxima(det_data)
             /\ c.rt = TimeOf(c.index)
             /\ Abs(c.rt - retention_times[ItemOf(c.name)].key) <= RtTolerance

\* no peak is the peak of two compounds
DetNoPeakTwice ==
  det_pc \in {"loop", "returned"} =>
    \A q, r \in DOMAIN compound_list :
      compound_list[q].index = compound_list[r].index => q = r

\* C30: detect_and_highlight_peaks completes normally for every trace and
\* every table of expected retention times, also when no peak is detected or
\* fewer peaks than retention times, returns only compounds matched within
\* the tolerance, and assigns no peak to two compounds.
C30_DetectionCompletes ==
  /\ DetCompletes
  /\ DetReturnsMatches
  /\ DetNoPeakTwice

====
